---- MODULE Spec2Model ----
(***************************************************************************)
(* A model of the tecs entity-component micro-engine (src/src/main.rs):    *)
(* the World storage (entities: Vec<Uuid>, components: HashMap<Uuid, C>),  *)
(* the Component builder, the query! macro (a lazy filter_map over the     *)
(* entity sequence) and the demonstration program main().                  *)
(*                                                                         *)
(* Option<T> is modelled as a sequence: None is <<>> and Some(v) is <<v>>. *)
(* A Position(i32, i32) is the pair <<x, y>>, a Name(String) is a string.  *)
(* Uuid::new_v4() is a random draw, modelled as a free choice from Ids.    *)
(***************************************************************************)
EXTENDS Integers, Sequences, FiniteSets

\* ------------------------------------------------------------------ bounds

\* Largest number of entities the free exploration spawns into one World.
MaxEntities == 2

\* Largest number of with_<field> calls applied to one bundle.
MaxCalls == 4

\* The identifiers Uuid::new_v4() can draw.
Ids == {"u1", "u2", "u3"}

\* The Position and Name values in play (those of main()).
Positions == {<<3, 4>>, <<0, 0>>}

Names == {"Label", "Ian"}

\* ------------------------------------------------------------------ state

VARIABLES
  world,    \* the World<Component>: [entities, components]
  spawned,  \* history: the entities handed to World::spawn, in call order
  iter,     \* Option of the live query iterator: [fields, pos, done]
  out,      \* the tuples the live iterator has yielded so far
  held,     \* Option of the caller's own copy of the tuple yielded last
  prev,     \* history: Option of the evaluation completed just before, kept
            \* while no spawn and no other query comes in between
  bundle,   \* Option of the Component under construction
  calls,    \* history: the with_<field> calls applied to bundle
  pc,       \* main(): the index of the next statement
  locals,   \* main(): the let-bound entities point, label, player
  printed   \* main(): what the systems have printed

vars == <<world, spawned, iter, out, held, prev, bundle, calls, pc, locals, printed>>

\* ----------------------------------------------------------------- Option

None == <<>>

Some(v) == <<v>>

IsSome(o) == Len(o) > 0

IsNone(o) == Len(o) = 0

Unwrap(o) == o[1]

\* -------------------------------------------------------------- Component

\* The fields of struct Component, and the values each can hold.
FieldNames == {"name", "position"}

Values(f) == IF f = "position" THEN Positions ELSE Names

OptPositions == {None} \cup {Some(p) : p \in Positions}

OptNames == {None} \cup {Some(n) : n \in Names}

Components == [name : OptNames, position : OptPositions]

Component_new == [name |-> None, position |-> None]

with_position(self, position) == [self EXCEPT !.position = Some(position)]

\* A builder that starts again from Component::new() instead of ..self.
with_name_reset(self, name) == [name |-> Some(name), position |-> None]

with_name(self, name) == [self EXCEPT !.name = Some(name)]

\* ----------------------------------------------------------------- Entity

\* Entity::new(component): every outcome of the random draw of the id.
Entity_new(component) == {[id |-> i, component |-> component] : i \in Ids}

\* ------------------------------------------------------------------ World

EmptyMap == [k \in {} |-> None]

World_new == [entities |-> <<>>, components |-> EmptyMap]

\* HashMap::insert: adds the key or replaces the value it had.
insert(m, k, v) == [x \in (DOMAIN m) \cup {k} |-> IF x = k THEN v ELSE m[x]]

\* HashMap::get
get(m, k) == IF k \in DOMAIN m THEN Some(m[k]) ELSE None

\* A spawn that pushes the id and forgets the insert.
spawn_no_insert(self, entity) ==
  [entities |-> Append(self.entities, entity.id), components |-> self.components]

\* A spawn that puts the new id first instead of last.
spawn_front(self, entity) ==
  [entities |-> <<entity.id>> \o self.entities,
   components |-> insert(self.components, entity.id, entity.component)]

\* A spawn that drops the name of the bundle it stores.
spawn_lossy(self, entity) ==
  [entities |-> Append(self.entities, entity.id),
   components |-> insert(self.components, entity.id,
                         [entity.component EXCEPT !.name = None])]

\* A spawn that checks uniqueness and only replaces the bundle of a known id.
spawn_unique(self, entity) ==
  [entities |-> IF entity.id \in DOMAIN self.components
                  THEN self.entities
                  ELSE Append(self.entities, entity.id),
   components |-> insert(self.components, entity.id, entity.component)]

\* A spawn that pushes the id twice.
spawn_twice(self, entity) ==
  [entities |-> Append(Append(self.entities, entity.id), entity.id),
   components |-> insert(self.components, entity.id, entity.component)]

spawn(self, entity) ==
  [entities |-> Append(self.entities, entity.id),
   components |-> insert(self.components, entity.id, entity.component)]

\* ------------------------------------------------------------------ query

\* The query! invocations of the source, and the reversed field order.
Queries == {<<"position">>, <<"name">>, <<"position", "name">>, <<"name", "position">>}

\* Option::clone of a stored field: an independent copy of the value.
clone(o) == o

\* A closure that tests only the first requested field and fills the others in.
closure_first(w, fields, entity) ==
  LET got == get(w.components, entity) IN
  IF IsNone(got) THEN None
  ELSE LET comps == Unwrap(got) IN
       IF IsNone(comps[fields[1]]) THEN None
       ELSE Some(<<entity>> \o
                 [i \in 1..Len(fields) |->
                    IF IsSome(comps[fields[i]])
                      THEN Unwrap(clone(comps[fields[i]]))
                      ELSE CHOOSE v \in Values(fields[i]) : TRUE])

\* The filter_map closure: None when the id has no bundle or any requested
\* field is absent (the ? operator), else the tuple (entity, values...).
closure(w, fields, entity) ==
  LET got == get(w.components, entity) IN
  IF IsNone(got) THEN None
  ELSE LET comps == Unwrap(got) IN
       IF \E i \in 1..Len(fields) : IsNone(clone(comps[fields[i]])) THEN None
       ELSE Some(<<entity>> \o
                 [i \in 1..Len(fields) |-> Unwrap(clone(comps[fields[i]]))])

\* An iterator that resumes where the last completed evaluation stopped.
query_shared(w, fields) ==
  [fields |-> fields,
   pos |-> IF IsSome(prev) THEN Len(w.entities) ELSE 0,
   done |-> FALSE]

\* query!(world, fields...): a fresh lazy iterator; nothing is evaluated yet.
query(w, fields) == [fields |-> fields, pos |-> 0, done |-> FALSE]

Min(S) == CHOOSE x \in S : \A y \in S : x <= y

\* A next() that moves the first requested field out of the stored bundle.
next_take(w, it) ==
  LET n == Len(w.entities)
      hits == {p \in (it.pos + 1)..n : IsSome(closure(w, it.fields, w.entities[p]))}
  IN IF hits = {}
       THEN [world |-> w, iter |-> [it EXCEPT !.pos = n, !.done = TRUE], item |-> None]
       ELSE LET p == Min(hits)
                e == w.entities[p]
            IN [world |-> [w EXCEPT !.components[e][it.fields[1]] = None],
                iter |-> [it EXCEPT !.pos = p],
                item |-> closure(w, it.fields, e)]

\* FilterMap::next over entities.iter(): advances to the next entity the
\* closure accepts and yields its tuple, or runs out and yields None.  The
\* World is only read (it is borrowed immutably).
next(w, it) ==
  LET n == Len(w.entities)
      hits == {p \in (it.pos + 1)..n : IsSome(closure(w, it.fields, w.entities[p]))}
  IN IF hits = {}
       THEN [world |-> w, iter |-> [it EXCEPT !.pos = n, !.done = TRUE], item |-> None]
       ELSE LET p == Min(hits)
            IN [world |-> w,
                iter |-> [it EXCEPT !.pos = p],
                item |-> closure(w, it.fields, w.entities[p])]

\* ------------------------------------------------------------------- main

LocalNames == {"point", "label", "player"}

\* The three systems: the fields each queries and the tag it prints.
Systems ==
  [movement |-> [fields |-> <<"position">>, tag |-> "MOVEMENT"],
   greet    |-> [fields |-> <<"name">>, tag |-> "NAME"],
   render   |-> [fields |-> <<"position", "name">>, tag |-> "RENDER"]]

\* The statements of main() after World::new(), in order.
MainProgram ==
  << [op |-> "new",           arg |-> None],
     [op |-> "with_position", arg |-> <<3, 4>>],
     [op |-> "entity",        arg |-> "point"],
     [op |-> "new",           arg |-> None],
     [op |-> "with_name",     arg |-> "Label"],
     [op |-> "entity",        arg |-> "label"],
     [op |-> "new",           arg |-> None],
     [op |-> "with_position", arg |-> <<0, 0>>],
     [op |-> "with_name",     arg |-> "Ian"],
     [op |-> "entity",        arg |-> "player"],
     [op |-> "spawn",         arg |-> "point"],
     [op |-> "spawn",         arg |-> "label"],
     [op |-> "spawn",         arg |-> "player"],
     [op |-> "system",        arg |-> "movement"],
     [op |-> "system",        arg |-> "greet"],
     [op |-> "system",        arg |-> "render"] >>

AtOp(o) == pc <= Len(MainProgram) /\ MainProgram[pc].op = o

\* ------------------------------------------------------------------- Init

Init ==
  /\ world = World_new
  /\ spawned = <<>>
  /\ iter = None
  /\ out = <<>>
  /\ held = None
  /\ prev = None
  /\ bundle = None
  /\ calls = <<>>
  /\ pc = 1
  /\ locals = [v \in LocalNames |-> None]
  /\ printed = <<>>

\* ---------------------------------------------------------------- actions

\* World::spawn(entity) for an entity built from any bundle.  It takes
\* &mut self, so no query iterator (a shared borrow) is alive.
Spawn ==
  /\ Len(spawned) < MaxEntities
  /\ IsNone(iter)
  /\ \E c \in Components : \E e \in Entity_new(c) :
        /\ world' = spawn(world, e)
        /\ spawned' = Append(spawned, e)
  /\ prev' = None
  /\ UNCHANGED <<iter, out, held, bundle, calls, pc, locals, printed>>

\* query!(world, fields...): the caller creates an iterator.
QueryStart ==
  /\ IsNone(iter)
  /\ \E fields \in Queries :
       /\ iter' = Some(query(world, fields))
       /\ prev' = IF IsSome(prev) /\ Unwrap(prev).fields = fields THEN prev ELSE None
  /\ out' = <<>>
  /\ held' = None
  /\ UNCHANGED <<world, spawned, bundle, calls, pc, locals, printed>>

\* The caller advances the iterator once.
IterNext ==
  /\ IsSome(iter)
  /\ \E r \in {next(world, Unwrap(iter))} :
       /\ world' = r.world
       /\ iter' = Some(r.iter)
       /\ held' = r.item
       /\ out' = IF IsSome(r.item) THEN Append(out, Unwrap(r.item)) ELSE out
       /\ prev' = IF IsNone(r.item)
                    THEN Some([fields |-> r.iter.fields, out |-> out'])
                    ELSE prev
  /\ UNCHANGED <<spawned, bundle, calls, pc, locals, printed>>

\* The caller changes a field value of the tuple it was handed.
MutateYielded ==
  /\ IsSome(iter)
  /\ IsSome(held)
  /\ \E k \in 1..Len(Unwrap(iter).fields) :
       \E v \in Values(Unwrap(iter).fields[k]) :
         /\ v # Unwrap(held)[k + 1]
         /\ held' = Some([Unwrap(held) EXCEPT ![k + 1] = v])
  /\ UNCHANGED <<world, spawned, iter, out, prev, bundle, calls, pc, locals, printed>>

\* The caller drops the iterator, exhausted or not.
DropIter ==
  /\ IsSome(iter)
  /\ iter' = None
  /\ out' = <<>>
  /\ held' = None
  /\ UNCHANGED <<world, spawned, prev, bundle, calls, pc, locals, printed>>

Next == Spawn \/ QueryStart \/ IterNext \/ MutateYielded \/ DropIter

Spec == Init /\ [][Next]_vars

\* ---------------------------------------------------------------- builder

\* Component::new()
ComponentNew ==
  /\ bundle' = Some(Component_new)
  /\ calls' = <<>>
  /\ UNCHANGED <<world, spawned, iter, out, held, prev, pc, locals, printed>>

\* bundle.with_position(x)
WithPosition ==
  /\ IsSome(bundle)
  /\ Len(calls) < MaxCalls
  /\ \E x \in Positions :
       /\ bundle' = Some(with_position(Unwrap(bundle), x))
       /\ calls' = Append(calls, [field |-> "position", value |-> x])
  /\ UNCHANGED <<world, spawned, iter, out, held, prev, pc, locals, printed>>

\* bundle.with_name(y)
WithName ==
  /\ IsSome(bundle)
  /\ Len(calls) < MaxCalls
  /\ \E y \in Names :
       /\ bundle' = Some(with_name(Unwrap(bundle), y))
       /\ calls' = Append(calls, [field |-> "name", value |-> y])
  /\ UNCHANGED <<world, spawned, iter, out, held, prev, pc, locals, printed>>

NextBuilder == ComponentNew \/ WithPosition \/ WithName

SpecBuilder == Init /\ [][NextBuilder]_vars

\* ------------------------------------------------------------ main, steps

\* Component::new()
MainComponentNew ==
  /\ AtOp("new")
  /\ bundle' = Some(Component_new)
  /\ calls' = <<>>
  /\ pc' = pc + 1
  /\ UNCHANGED <<world, spawned, iter, out, held, prev, locals, printed>>

\* .with_position(Position(..))
MainWithPosition ==
  /\ AtOp("with_position")
  /\ bundle' = Some(with_position(Unwrap(bundle), MainProgram[pc].arg))
  /\ calls' = Append(calls, [field |-> "position", value |-> MainProgram[pc].arg])
  /\ pc' = pc + 1
  /\ UNCHANGED <<world, spawned, iter, out, held, prev, locals, printed>>

\* .with_name(Name(..))
MainWithName ==
  /\ AtOp("with_name")
  /\ bundle' = Some(with_name(Unwrap(bundle), MainProgram[pc].arg))
  /\ calls' = Append(calls, [field |-> "name", value |-> MainProgram[pc].arg])
  /\ pc' = pc + 1
  /\ UNCHANGED <<world, spawned, iter, out, held, prev, locals, printed>>

\* let <local> = Entity::new(<the bundle>): the bundle is moved into it.
MainEntityNew ==
  /\ AtOp("entity")
  /\ \E e \in Entity_new(Unwrap(bundle)) :
       locals' = [locals EXCEPT ![MainProgram[pc].arg] = Some(e)]
  /\ bundle' = None
  /\ calls' = <<>>
  /\ pc' = pc + 1
  /\ UNCHANGED <<world, spawned, iter, out, held, prev, printed>>

\* world.spawn(<local>): the entity is moved into the World.
MainSpawn ==
  /\ AtOp("spawn")
  /\ LET e == Unwrap(locals[MainProgram[pc].arg]) IN
       /\ world' = spawn(world, e)
       /\ spawned' = Append(spawned, e)
  /\ locals' = [locals EXCEPT ![MainProgram[pc].arg] = None]
  /\ prev' = None
  /\ pc' = pc + 1
  /\ UNCHANGED <<iter, out, held, bundle, calls, printed>>

\* A system is called and evaluates its query! to an iterator.
MainSystemCall ==
  /\ AtOp("system")
  /\ IsNone(iter)
  /\ iter' = Some(query(world, Systems[MainProgram[pc].arg].fields))
  /\ out' = <<>>
  /\ held' = None
  /\ prev' = None
  /\ UNCHANGED <<world, spawned, bundle, calls, pc, locals, printed>>

\* One turn of the system's for loop: it prints the tuple it is handed, or
\* the iterator is exhausted, the loop ends and the system returns.
MainSystemLoop ==
  /\ AtOp("system")
  /\ IsSome(iter)
  /\ \E r \in {next(world, Unwrap(iter))} :
       /\ world' = r.world
       /\ IF IsSome(r.item)
            THEN /\ iter' = Some(r.iter)
                 /\ held' = r.item
                 /\ out' = Append(out, Unwrap(r.item))
                 /\ printed' = Append(printed,
                       [tag |-> Systems[MainProgram[pc].arg].tag, tuple |-> Unwrap(r.item)])
                 /\ pc' = pc
            ELSE /\ iter' = None
                 /\ held' = None
                 /\ out' = <<>>
                 /\ printed' = printed
                 /\ pc' = pc + 1
  /\ UNCHANGED <<spawned, prev, bundle, calls, locals>>

NextMain ==
  \/ MainComponentNew
  \/ MainWithPosition
  \/ MainWithName
  \/ MainEntityNew
  \/ MainSpawn
  \/ MainSystemCall
  \/ MainSystemLoop

SpecMain == Init /\ [][NextMain]_vars

\* ----------------------------------------------------- vocabulary of claims

EntityIds == {world.entities[i] : i \in 1..Len(world.entities)}

SpawnedIds == [i \in 1..Len(spawned) |-> spawned[i].id]

OutIds == [t \in 1..Len(out) |-> out[t][1]]

Occurrences(s, x) == {i \in 1..Len(s) : s[i] = x}

\* The identifier of the k-th spawned entity is that of no other spawned entity.
UniqueId(k) == Occurrences(SpawnedIds, spawned[k].id) = {k}

DistinctIds == \A k \in 1..Len(spawned) : UniqueId(k)

Has(c, fields) == \A k \in 1..Len(fields) : IsSome(c[fields[k]])

TupleOf(id, c, fields) == <<id>> \o [k \in 1..Len(fields) |-> Unwrap(c[fields[k]])]

Running == IsSome(iter)

Done == IsSome(iter) /\ Unwrap(iter).done

Fields == Unwrap(iter).fields

Max(S) == CHOOSE x \in S : \A y \in S : x >= y

RECURSIVE IsSubseq(_, _)
IsSubseq(s, t) ==
  IF Len(s) = 0 THEN TRUE
  ELSE IF Len(t) = 0 THEN FALSE
  ELSE IF Head(s) = Head(t) THEN IsSubseq(Tail(s), Tail(t))
  ELSE IsSubseq(s, Tail(t))

\* --------------------------------------------------------------------- C1

\* C1: in every state reached by spawns, every Identifier of the sequence
\* `entities` is a key of the mapping `components` (a mapping holds one entry
\* per key), and every key of the mapping occurs in the sequence.
C1_Lockstep ==
  /\ \A i \in 1..Len(world.entities) : world.entities[i] \in DOMAIN world.components
  /\ \A k \in DOMAIN world.components : k \in EntityIds

C1_Witness == Len(world.entities) = 2 /\ world.entities[1] # world.entities[2]

\* --------------------------------------------------------------------- C2

\* C2 as stated: after any spawns the sequence holds one Identifier per
\* spawn call and the mapping is as large as the sequence is long.
C2_Original ==
  /\ Len(world.entities) = Len(spawned)
  /\ Cardinality(DOMAIN world.components) = Len(world.entities)

\* C2 amended: every spawn, also of a bundle with every field absent,
\* lengthens the sequence by exactly one; the mapping is as large as the
\* sequence is long whenever the Identifiers spawned are pairwise distinct.
C2_Amended ==
  /\ Len(world.entities) = Len(spawned)
  /\ DistinctIds => Cardinality(DOMAIN world.components) = Len(world.entities)

C2_Witness ==
  /\ Len(spawned) = 2
  /\ DistinctIds
  /\ spawned[2].component = Component_new
  /\ Cardinality(DOMAIN world.components) = 2

\* --------------------------------------------------------------------- C3

\* C3: an entity of the World whose bundle lacks at least one requested
\* field is in no tuple the query has yielded.
C3_Excluded ==
  Running =>
    \A id \in DOMAIN world.components :
      ~Has(world.components[id], Fields) =>
        \A t \in 1..Len(out) : out[t][1] # id

C3_Witness ==
  /\ Done
  /\ Len(Fields) = 2
  /\ Len(out) = 1
  /\ \E id \in DOMAIN world.components :
       /\ IsSome(world.components[id][Fields[1]])
       /\ IsNone(world.components[id][Fields[2]])

\* --------------------------------------------------------------------- C4

\* C4 as stated: once a query is evaluated to its end, every spawned entity
\* whose bundle had every requested field is in exactly one tuple, with the
\* values its bundle had at spawn time.
C4_Original ==
  Done =>
    \A k \in 1..Len(spawned) :
      Has(spawned[k].component, Fields) =>
        /\ Cardinality(Occurrences(OutIds, spawned[k].id)) = 1
        /\ \A t \in Occurrences(OutIds, spawned[k].id) :
             out[t] = TupleOf(spawned[k].id, spawned[k].component, Fields)

\* C4 amended: the same for every spawned entity whose Identifier is that
\* of no other spawned entity.
C4_Amended ==
  Done =>
    \A k \in 1..Len(spawned) :
      (UniqueId(k) /\ Has(spawned[k].component, Fields)) =>
        /\ Cardinality(Occurrences(OutIds, spawned[k].id)) = 1
        /\ \A t \in Occurrences(OutIds, spawned[k].id) :
             out[t] = TupleOf(spawned[k].id, spawned[k].component, Fields)

C4_Witness ==
  /\ Done
  /\ Len(Fields) = 2
  /\ Len(spawned) = 2
  /\ DistinctIds
  /\ Has(spawned[1].component, Fields)
  /\ Len(out) >= 1
  /\ out[1][1] = spawned[1].id

\* --------------------------------------------------------------------- C5

\* C5: the Identifiers yielded so far, in the order yielded, are a
\* subsequence of the Identifiers in spawn order: a tuple yielded earlier
\* belongs to an entity spawned earlier.
C5_SpawnOrder == Running => IsSubseq(OutIds, SpawnedIds)

C5_Witness == Done /\ Len(out) = 2 /\ out[1][1] # out[2][1]

\* --------------------------------------------------------------------- C6

\* C6: when an evaluation of a query reaches its end and the evaluation
\* completed just before it, with no spawn in between, was of the same
\* query, both yielded the same sequence of tuples.
C6_Idempotent ==
  [][ ( /\ IsSome(iter) /\ IsSome(iter') /\ IsSome(prev)
        /\ ~Unwrap(iter).done /\ Unwrap(iter').done
        /\ Unwrap(prev).fields = Unwrap(iter).fields )
      => out' = Unwrap(prev).out ]_vars

C6_Witness ==
  /\ IsSome(prev)
  /\ Running
  /\ ~Done
  /\ Unwrap(prev).fields = Fields
  /\ Len(out) = 2
  /\ out = Unwrap(prev).out

\* --------------------------------------------------------------------- C7

\* The value the builder calls so far gave field f last, if any.
LastGiven(f) ==
  LET given == {i \in 1..Len(calls) : calls[i].field = f}
  IN IF given = {} THEN None ELSE Some(calls[Max(given)].value)

\* C7: a bundle under construction holds in each field the value the last
\* with_<field> call for that field gave, and nothing if there was none (so
\* a call leaves the other fields alone and a repeated call keeps the last
\* value); with_position(x) then with_name(y) gives the bundle that
\* with_name(y) then with_position(x) gives.
C7_Builder ==
  IsSome(bundle) =>
    /\ \A f \in FieldNames : Unwrap(bundle)[f] = LastGiven(f)
    /\ ( /\ Len(calls) = 2
         /\ calls[1].field = "position"
         /\ calls[2].field = "name" )
       => Unwrap(bundle) =
            with_position(with_name(Component_new, calls[2].value), calls[1].value)

C7_Witness ==
  /\ IsSome(bundle)
  /\ Len(calls) = 3
  /\ calls[1].field = "position"
  /\ calls[2].field = "name"
  /\ calls[3].field = "position"
  /\ calls[1].value # calls[3].value
  /\ Unwrap(bundle).position = Some(calls[3].value)
  /\ Unwrap(bundle).name = Some(calls[2].value)

\* --------------------------------------------------------------------- C8

MainDone == pc = Len(MainProgram) + 1

\* What main() is to print, given the identifiers of point, label, player.
Expected(A, B, C) ==
  << [tag |-> "MOVEMENT", tuple |-> <<A, <<3, 4>>>>],
     [tag |-> "MOVEMENT", tuple |-> <<C, <<0, 0>>>>],
     [tag |-> "NAME",     tuple |-> <<B, "Label">>],
     [tag |-> "NAME",     tuple |-> <<C, "Ian">>],
     [tag |-> "RENDER",   tuple |-> <<C, <<0, 0>>, "Ian">>] >>

PrintedIs(e) ==
  /\ Len(printed) = Len(e)
  /\ \A i \in 1..Len(e) : printed[i].tag = e[i].tag
  /\ \A i \in 1..Len(e) : printed[i].tuple = e[i].tuple

\* C8 as stated: when main() has run, the position query has yielded
\* [A:(3,4), C:(0,0)], the name query [B:"Label", C:"Ian"] and the
\* position+name query [C:(0,0),"Ian"], whatever identifiers were drawn.
C8_Original ==
  MainDone => PrintedIs(Expected(spawned[1].id, spawned[2].id, spawned[3].id))

\* C8 amended: the same, provided the three identifiers drawn are pairwise
\* distinct.
C8_Amended ==
  (MainDone /\ DistinctIds) =>
    PrintedIs(Expected(spawned[1].id, spawned[2].id, spawned[3].id))

C8_Witness == MainDone /\ DistinctIds /\ Len(printed) = 5

\* --------------------------------------------------------------------- C9

\* C9: every step taken with a query iterator, creating it, advancing it,
\* changing a yielded value and dropping it at any point, leaves the
\* World's sequence and every stored bundle as they were.
C9_ReadOnly == [][ (IsSome(iter) \/ IsSome(iter')) => world' = world ]_vars

C9_Witness ==
  /\ Running
  /\ ~Done
  /\ IsSome(held)
  /\ Len(out) = 1
  /\ Unwrap(held) # out[1]
  /\ TupleOf(out[1][1], world.components[out[1][1]], Fields) = out[1]
  /\ Len(world.entities) = 2

\* -------------------------------------------------------------------- C10

\* C10: for an Identifier spawned more than once, the sequence holds it once
\* per spawn, the mapping holds one entry for it with the bundle spawned
\* last, the sequence is longer than the mapping is large, and a finished
\* query whose fields that bundle has yields the Identifier once per
\* occurrence, each time with that bundle's values.
C10_Collision ==
  \A id \in Ids :
    LET calls_ == Occurrences(SpawnedIds, id) IN
    Cardinality(calls_) >= 2 =>
      /\ Cardinality(Occurrences(world.entities, id)) = Cardinality(calls_)
      /\ id \in DOMAIN world.components
      /\ world.components[id] = spawned[Max(calls_)].component
      /\ Len(world.entities) > Cardinality(DOMAIN world.components)
      /\ (Done /\ Has(world.components[id], Fields)) =>
           /\ Cardinality(Occurrences(OutIds, id)) = Cardinality(calls_)
           /\ \A t \in Occurrences(OutIds, id) :
                out[t] = TupleOf(id, world.components[id], Fields)

C10_Witness ==
  /\ Done
  /\ Len(out) = 2
  /\ out[1][1] = out[2][1]
  /\ spawned[1].component # spawned[2].component
  /\ ~Has(spawned[1].component, Fields)

====
